---- MODULE Spec2Model ----
(***************************************************************************)
(* Model of nordigen_account/__init__.py: create_nordigen_client,          *)
(* BankAccount and BankAccountManager.  The Nordigen API client is the     *)
(* environment: every remote call returns a response mapping or raises.    *)
(* Each public operation is one action; the outcome of every remote call   *)
(* it makes is chosen nondeterministically and kept in `calls`.            *)
(***************************************************************************)
EXTENDS Integers, Sequences, FiniteSets, TLC

VARIABLES
    op,        \* the public operation last called, with its arguments (for a
               \* method, self as it was when the call was made)
    calls,     \* the remote calls that operation issued, in order, with outcomes
    raised,    \* the exception that reached its caller (NoException on return)
    returned,  \* the (client, new_refresh_token) pair create_nordigen_client returned
    account,   \* the caller's BankAccount object
    manager    \* the caller's BankAccountManager object

vars == <<op, calls, raised, returned, account, manager>>

----------------------------------------------------------------------------
(* Python values.  A mapping is a function on its keys; strings are TLA+   *)
(* strings.  Python's None is "None" in a string slot, NoneCode in an      *)
(* Optional[int] slot, Null in a mapping/object slot and NullList in a     *)
(* list slot.                                                              *)

None == "None"
NoneCode == 0
Null == [null |-> TRUE]
NullList == << Null >>
EmptyDict == <<>>

\* dict.get(key, default)
Get(d, key, default) == IF key \in DOMAIN d THEN d[key] ELSE default

\* bool(s) of an Optional[str]
Truthy(s) == s # None /\ s # ""

----------------------------------------------------------------------------
(* Exceptions *)

NoException == [type |-> "NoException"]

NordigenAPIError(message, status_code, response_body) ==
    [type |-> "NordigenAPIError", message |-> message,
     status_code |-> status_code, response_body |-> response_body]

HTTPError(response) == [type |-> "HTTPError", response |-> response]

PyError(type) == [type |-> type]

\* A requests.Response: its text is JSON for `body`, or is not JSON at all.
Response(is_json, body) == [is_json |-> is_json, body |-> body]

\* http_err.response.json(): the decoded body, or the exception raised by
\* the attribute access on a missing response / by the JSON decoder.
ResponseJson(http_err) ==
    IF http_err.response = Null THEN [exc |-> PyError("AttributeError")]
    ELSE IF ~http_err.response.is_json THEN [exc |-> PyError("JSONDecodeError")]
    ELSE [exc |-> NoException, value |-> http_err.response.body]

\* Outcome of one remote call
Ok(data) == [kind |-> "ok", data |-> data]
Raises(exc) == [kind |-> "raise", exc |-> exc]

NotCalled == [kind |-> "not called"]

Call(api, arg, out) == [api |-> api, arg |-> arg, out |-> out]

----------------------------------------------------------------------------
(* What the provider may answer *)

ErrorBodies ==
    { [status_code |-> 401, detail |-> "unauthorized"],
      [status_code |-> 500, detail |-> "server error"],
      [detail |-> "no status"] }

RemoteErrors ==
    { HTTPError(Response(TRUE, b)) : b \in ErrorBodies }
    \cup { HTTPError(Response(FALSE, EmptyDict)), HTTPError(Null),
           PyError("ConnectionError") }

Outcomes(datas) == { Ok(d) : d \in datas } \cup { Raises(e) : e \in RemoteErrors }

TokenDicts ==
    { [access |-> "a1", refresh |-> "r1"], [access |-> "a2", refresh |-> "r2"],
      [access |-> "a1", refresh |-> "r2"], [access |-> "a1"], [access |-> "a2"],
      [refresh |-> "r1"], [refresh |-> "r2"], EmptyDict }

TokenOutcomes == Outcomes(TokenDicts)

RefreshTokens == { None, "", "rt1", "rt2", "rt3" }

----------------------------------------------------------------------------
(* create_nordigen_client *)

status_invalid == 401

\* GenerateStep without the capture of the new refresh token
GenerateStepNoCapture(gen, log) ==
    LET log2 == Append(log, Call("generate_token", None, gen)) IN
    IF gen.kind = "raise"
      THEN [exc |-> gen.exc, calls |-> log2]
    ELSE IF "refresh" \notin DOMAIN gen.data
      THEN [exc |-> PyError("KeyError"), calls |-> log2]
    ELSE [exc |-> NoException, calls |-> log2, token_data |-> gen.data,
          new_refresh_token |-> None]

\* client.generate_token(); new_refresh_token = token_data["refresh"]
GenerateStep(gen, log) ==
    LET log2 == Append(log, Call("generate_token", None, gen)) IN
    IF gen.kind = "raise"
      THEN [exc |-> gen.exc, calls |-> log2]
    ELSE IF "refresh" \notin DOMAIN gen.data
      THEN [exc |-> PyError("KeyError"), calls |-> log2]
    ELSE [exc |-> NoException, calls |-> log2, token_data |-> gen.data,
          new_refresh_token |-> gen.data["refresh"]]

\* the inner try/except around client.exchange_token(refresh_token)
ExchangeStep(refresh_token, ex, gen) ==
    LET log == << Call("exchange_token", refresh_token, ex) >> IN
    IF ex.kind = "ok"
      THEN [exc |-> NoException, calls |-> log, token_data |-> ex.data,
            new_refresh_token |-> None]
    ELSE IF ex.exc.type # "HTTPError"
      THEN [exc |-> ex.exc, calls |-> log]
    ELSE LET js == ResponseJson(ex.exc) IN
         IF js.exc # NoException
           THEN [exc |-> js.exc, calls |-> log]
         ELSE LET status_code == Get(js.value, "status_code", NoneCode) IN
              IF status_code = status_invalid
                THEN GenerateStep(gen, log)
              ELSE [exc |-> NordigenAPIError("Error exchanging token",
                                             status_code, js.value),
                    calls |-> log]

\* the body of the outer try
TokenTryBody(refresh_token, ex, gen) ==
    LET r == IF ~Truthy(refresh_token) THEN GenerateStep(gen, << >>)
             ELSE ExchangeStep(refresh_token, ex, gen) IN
    IF r.exc # NoException THEN r
    ELSE IF "access" \notin DOMAIN r.token_data
      THEN [exc |-> PyError("KeyError"), calls |-> r.calls]
    ELSE [exc |-> NoException, calls |-> r.calls,
          client |-> [token |-> r.token_data["access"]],
          new_refresh_token |-> r.new_refresh_token]

\* the except clauses of the outer try, applied to an exception of its body
TokenExcept(exc) ==
    IF exc.type = "KeyError"
      THEN NordigenAPIError("Missing expected key in token response", NoneCode, Null)
    ELSE IF exc.type = "HTTPError"
      THEN LET js == ResponseJson(exc) IN
           IF js.exc # NoException THEN js.exc
           ELSE NordigenAPIError("Error generating token",
                                 Get(js.value, "status_code", NoneCode), js.value)
    ELSE NordigenAPIError("Unexpected error obtaining access token", NoneCode, Null)

NoReturn == [client |-> Null, new_refresh_token |-> None]

create_nordigen_client(refresh_token, ex, gen) ==
    LET r == TokenTryBody(refresh_token, ex, gen) IN
    /\ op' = [name |-> "create_nordigen_client", refresh_token |-> refresh_token]
    /\ calls' = r.calls
    /\ IF r.exc = NoException
         THEN /\ raised' = NoException
              /\ returned' = [client |-> r.client,
                              new_refresh_token |-> r.new_refresh_token]
         ELSE /\ raised' = TokenExcept(r.exc)
              /\ returned' = NoReturn
    /\ UNCHANGED <<account, manager>>

CreateClient ==
    \E refresh_token \in RefreshTokens :
      \E ex \in TokenOutcomes, gen \in TokenOutcomes :
        create_nordigen_client(refresh_token, ex, gen)

----------------------------------------------------------------------------
(* BankAccount *)

AccountInfos ==
    { [name |-> "Main", status |-> "READY", currency |-> "EUR"],
      [name |-> "Savings", currency |-> "GBP"],
      EmptyDict }

\* responses of account_api(id).get_details()
DetailsDicts == { [account |-> a] : a \in AccountInfos \cup {Null} } \cup { EmptyDict }

\* The text of an amount is a sequence of characters; a float is modelled by
\* its value in hundredths (the texts of the model have at most two decimals).
\* The texts read are an optional sign, digits and an optional decimal point.
Digits == << "0", "1", "2", "3", "4", "5", "6", "7", "8", "9" >>

IsDigit(c) == \E i \in 1..Len(Digits) : Digits[i] = c

DigitVal(c) == (CHOOSE i \in 1..Len(Digits) : Digits[i] = c) - 1

RECURSIVE Num(_)
Num(ds) == IF ds = << >> THEN 0
           ELSE 10 * Num(SubSeq(ds, 1, Len(ds) - 1)) + DigitVal(ds[Len(ds)])

Signed(text) == Len(text) > 0 /\ text[1] \in { "-", "+" }

Sign(text) == IF Signed(text) /\ text[1] = "-" THEN -1 ELSE 1

Unsigned(text) == IF Signed(text) THEN Tail(text) ELSE text

\* the place of the decimal point, past the end when there is none
PointOf(body) ==
    IF \E i \in 1..Len(body) : body[i] = "."
      THEN CHOOSE i \in 1..Len(body) :
             body[i] = "." /\ \A j \in 1..(i - 1) : body[j] # "."
      ELSE Len(body) + 1

\* digits before and after the point; [ok |-> FALSE] stands for ValueError
FloatOfParts(sign, intpart, fracpart) ==
    IF /\ Len(intpart) + Len(fracpart) >= 1
       /\ \A i \in 1..Len(intpart) : IsDigit(intpart[i])
       /\ \A i \in 1..Len(fracpart) : IsDigit(fracpart[i])
      THEN [ok |-> TRUE,
            value |-> sign * (100 * Num(intpart)
                              + Num(SubSeq(fracpart \o << "0", "0" >>, 1, 2)))]
      ELSE [ok |-> FALSE]

FloatAtPoint(sign, body, point) ==
    FloatOfParts(sign, SubSeq(body, 1, point - 1), SubSeq(body, point + 1, Len(body)))

\* float(text)
float(text) == FloatAtPoint(Sign(text), Unsigned(text), PointOf(Unsigned(text)))

BalanceEntries ==
    { [balanceType |-> "expected",
       balanceAmount |-> [amount |-> << "1", "2", ".", "5" >>, currency |-> "EUR"]],
      [balanceAmount |-> [amount |-> << "-", "3" >>]],
      [balanceType |-> "booked"],
      [balanceType |-> "booked",
       balanceAmount |-> [amount |-> << "1", "2", "x" >>, currency |-> "EUR"]],
      [balanceType |-> "booked", balanceAmount |-> Null] }

MaxBalances == 2

RECURSIVE SeqsUpTo(_, _)
SeqsUpTo(S, n) ==
    IF n = 0 THEN { << >> }
    ELSE LET shorter == SeqsUpTo(S, n - 1) IN
         shorter \cup { Append(s, x) : s \in shorter, x \in S }

\* responses of account_api(id).get_balances()
BalancesDicts ==
    { [balances |-> bs] : bs \in SeqsUpTo(BalanceEntries, MaxBalances) \cup {NullList} }
    \cup { EmptyDict }

DetailsOutcomes == Outcomes(DetailsDicts)

BalancesOutcomes == Outcomes(BalancesDicts)

\* self.name = None ... self.balances = []
NewAccount(account_id) ==
    [account_id |-> account_id, name |-> None, status |-> None,
     currency |-> None, balances |-> << >>]

\* the two except clauses shared by update_account_data / update_balance_data
\* and _initialize_accounts, applied to an exception of the try body
WrapHTTPError(js, http_message) ==
    IF js.exc # NoException THEN js.exc
    ELSE NordigenAPIError(http_message,
                          Get(js.value, "status_code", NoneCode), js.value)

WrapExcept(exc, http_message, other_message) ==
    IF exc.type = "HTTPError"
      THEN WrapHTTPError(ResponseJson(exc), http_message)
      ELSE NordigenAPIError(other_message, NoneCode, Null)

\* what leaves a method whose try body ended as r, after its except clauses
Leave(r, http_message, other_message, log) ==
    [exc |-> IF r.exc = NoException THEN NoException
             ELSE WrapExcept(r.exc, http_message, other_message),
     self |-> r.self,
     calls |-> log]

\* self.name = ...; self.status = ...; self.currency = ...
StoreDetails(self, account_details) ==
    IF account_details = Null
      THEN [exc |-> PyError("AttributeError"), self |-> self]
      ELSE [exc |-> NoException,
            self |-> [self EXCEPT
                !.name = Get(account_details, "name", "Unknown"),
                !.status = Get(account_details, "status", "Unknown"),
                !.currency = Get(account_details, "currency", "Unknown")]]

\* the try body of update_account_data
DetailsTryBody(self, out) ==
    IF out.kind = "raise" THEN [exc |-> out.exc, self |-> self]
    ELSE StoreDetails(self, Get(out.data, "account", EmptyDict))

\* update_account_data with one retry of a failed details request
update_account_data_retrying(self, out) ==
    Leave(DetailsTryBody(self, out), "Error retrieving account details",
          "Unexpected error while fetching account details",
          IF out.kind = "raise"
            THEN << Call("get_details", self.account_id, out),
                    Call("get_details", self.account_id, out) >>
            ELSE << Call("get_details", self.account_id, out) >>)

update_account_data(self, out) ==
    Leave(DetailsTryBody(self, out), "Error retrieving account details",
          "Unexpected error while fetching account details",
          << Call("get_details", self.account_id, out) >>)

\* balance_data, given the float of its amount
BalanceRecord(balance, balanceAmount, amount) ==
    IF ~amount.ok THEN [exc |-> PyError("ValueError")]
    ELSE [exc |-> NoException,
          balance_data |->
            [balanceType |-> Get(balance, "balanceType", "Unknown"),
             amount |-> amount.value,
             currency |-> Get(balanceAmount, "currency", "Unknown")]]

\* balance_data, given balance.get("balanceAmount", {})
BalanceDataOf(balance, balanceAmount) ==
    IF balanceAmount = Null THEN [exc |-> PyError("AttributeError")]
    ELSE BalanceRecord(balance, balanceAmount,
                       IF "amount" \in DOMAIN balanceAmount
                         THEN float(balanceAmount["amount"])
                         ELSE [ok |-> TRUE, value |-> 0])

\* one iteration of the loop over account_balances
BalanceData(balance) ==
    BalanceDataOf(balance, Get(balance, "balanceAmount", EmptyDict))

\* the loop: self.balances.append(balance_data) until an entry raises
RECURSIVE ParseBalances(_, _)
RECURSIVE AppendBalance(_, _, _)
AppendBalance(balances, account_balances, d) ==
    IF d.exc # NoException THEN [exc |-> d.exc, balances |-> balances]
    ELSE ParseBalances(Append(balances, d.balance_data), Tail(account_balances))

ParseBalances(balances, account_balances) ==
    IF account_balances = << >> THEN [exc |-> NoException, balances |-> balances]
    ELSE AppendBalance(balances, account_balances, BalanceData(Head(account_balances)))

\* ResetBalances without the reset: the loop appends to the old list
ResetBalancesMissing(balances) == balances

\* self.balances = []  # Reset balances
ResetBalances(balances) == << >>

StoreBalances(self, p) == [exc |-> p.exc, self |-> [self EXCEPT !.balances = p.balances]]

\* the try body of update_balance_data after the request returned
BalancesLoop(self, account_balances) ==
    IF account_balances = NullList
      THEN [exc |-> PyError("TypeError"),
            self |-> [self EXCEPT !.balances = ResetBalances(self.balances)]]
      ELSE StoreBalances(self, ParseBalances(ResetBalances(self.balances),
                                             account_balances))

\* BalancesTryBody with the reset moved before the request
BalancesTryBodyResetFirst(self, out) ==
    IF out.kind = "raise"
      THEN [exc |-> out.exc, self |-> [self EXCEPT !.balances = << >>]]
      ELSE BalancesLoop(self, Get(out.data, "balances", << >>))

\* the try body of update_balance_data
BalancesTryBody(self, out) ==
    IF out.kind = "raise" THEN [exc |-> out.exc, self |-> self]
    ELSE BalancesLoop(self, Get(out.data, "balances", << >>))

update_balance_data(self, out) ==
    Leave(BalancesTryBody(self, out), "Error retrieving account balances",
          "Unexpected error while fetching account balances",
          << Call("get_balances", self.account_id, out) >>)

\* self.update_account_data() returned d; then self.update_balance_data()
ThenBalances(d, b) == [exc |-> b.exc, self |-> b.self, calls |-> d.calls \o b.calls]

AfterDetails(d, balances_out) ==
    IF d.exc # NoException THEN d
    ELSE ThenBalances(d, update_balance_data(d.self, balances_out))

\* BankAccount.__init__
BankAccount(account_id, fetch_data, details_out, balances_out) ==
    IF ~fetch_data
      THEN [exc |-> NoException, self |-> NewAccount(account_id), calls |-> << >>]
      ELSE AfterDetails(update_account_data(NewAccount(account_id), details_out),
                        balances_out)

AccountIds == { "acc1", "acc2" }

\* the remote calls BankAccount(account_id, fetch_data) gets to make: the
\* details call when fetch_data, the balances call when the details refresh
\* returned; a call that was not made has the outcome NotCalled
DetailsOutcomesFor(fetch_data, details) ==
    IF fetch_data THEN details ELSE { NotCalled }

BalancesOutcomesFor(account_id, fetch_data, details_out, balances) ==
    IF /\ fetch_data
       /\ update_account_data(NewAccount(account_id), details_out).exc = NoException
      THEN balances ELSE { NotCalled }

\* the caller's view of a BankAccount(...) call that ended as r
AccountBuilt(account_id, fetch_data, r) ==
    /\ op' = [name |-> "BankAccount", account_id |-> account_id,
              fetch_data |-> fetch_data]
    /\ calls' = r.calls
    /\ raised' = r.exc
    /\ account' = IF r.exc = NoException THEN r.self ELSE account
    /\ UNCHANGED <<returned, manager>>

\* The caller builds BankAccount objects until one construction returns,
\* and then works with that object.
NewBankAccount ==
    /\ account = Null
    /\ \E account_id \in { "acc1" }, fetch_data \in BOOLEAN :
         \E details_out \in DetailsOutcomesFor(fetch_data, DetailsOutcomes) :
           \E balances_out \in BalancesOutcomesFor(account_id, fetch_data,
                                                   details_out, BalancesOutcomes) :
             AccountBuilt(account_id, fetch_data,
                          BankAccount(account_id, fetch_data, details_out, balances_out))

\* the caller's view of a method call on its account that ended as r
AccountUpdated(name, r) ==
    /\ op' = [name |-> name, self |-> account]
    /\ calls' = r.calls
    /\ raised' = r.exc
    /\ account' = r.self
    /\ UNCHANGED <<returned, manager>>

UpdateAccountData ==
    /\ account # Null
    /\ \E out \in DetailsOutcomes :
         AccountUpdated("update_account_data", update_account_data(account, out))

UpdateBalanceData ==
    /\ account # Null
    /\ \E out \in BalancesOutcomes :
         AccountUpdated("update_balance_data", update_balance_data(account, out))

----------------------------------------------------------------------------
(* BankAccountManager *)

STATUS_EXPIRED == "EX"

MaxAccounts == 2

RequisitionDicts ==
    LET meta   == { [institution_id |-> "BANK_X", reference |-> "ref-1"], EmptyDict }
        status == { [status |-> STATUS_EXPIRED], [status |-> "LN"], EmptyDict }
        linked == { [accounts |-> ids] : ids \in SeqsUpTo(AccountIds, MaxAccounts) }
                  \cup { EmptyDict }
    IN  { m @@ st @@ l : m \in meta, st \in status, l \in linked }

RequisitionOutcomes == Outcomes(RequisitionDicts)

\* what the provider answers the account calls a manager makes
ManagerDetailsOutcomes ==
    { Ok([account |-> [name |-> "Main", status |-> "READY", currency |-> "EUR"]]),
      Ok(EmptyDict),
      Ok([account |-> Null]),
      Raises(HTTPError(Response(FALSE, EmptyDict))),
      Raises(HTTPError(Response(TRUE, [status_code |-> 500, detail |-> "server error"]))),
      Raises(HTTPError(Null)) }

ManagerBalancesOutcomes ==
    { Ok([balances |-> << [balanceType |-> "booked"] >>]),
      Ok([balances |-> << [balanceType |-> "expected",
                           balanceAmount |-> [amount |-> << "1", "2", ".", "5" >>,
                                              currency |-> "EUR"]],
                          [balanceAmount |-> [amount |-> << "-", "3" >>]] >>]),
      Ok(EmptyDict),
      Ok([balances |-> << [balanceAmount |-> [amount |-> << "x" >>]] >>]),
      Raises(HTTPError(Response(TRUE, [detail |-> "no status"]))),
      Raises(PyError("ConnectionError")) }

NewManager(requisition_id) ==
    [requisition_id |-> requisition_id, accounts |-> << >>,
     institution_id |-> None, reference |-> None]

\* the for loop of _initialize_accounts; outs[i] is the pair of outcomes of
\* the details and balances calls of the i-th BankAccount still to be built
RECURSIVE AppendAccounts(_, _, _, _)
RECURSIVE AppendAccountsInFront(_, _, _, _)

PrependCalls(log, r) == [r EXCEPT !.calls = log \o r.calls]

\* AppendAccounts with insert(0, ...) in place of append
AppendBuiltInFront(accounts, account_ids, fetch_data, outs, a) ==
    IF a.exc # NoException
      THEN [exc |-> a.exc, accounts |-> accounts, calls |-> a.calls]
      ELSE PrependCalls(a.calls,
             AppendAccountsInFront(<< a.self >> \o accounts, Tail(account_ids),
                                   fetch_data, Tail(outs)))

AppendAccountsInFront(accounts, account_ids, fetch_data, outs) ==
    IF account_ids = << >>
      THEN [exc |-> NoException, accounts |-> accounts, calls |-> << >>]
      ELSE AppendBuiltInFront(accounts, account_ids, fetch_data, outs,
             BankAccount(Head(account_ids), fetch_data, Head(outs)[1], Head(outs)[2]))

\* self.accounts.append(a), where the BankAccount(...) call ended as a
AppendBuilt(accounts, account_ids, fetch_data, outs, a) ==
    IF a.exc # NoException
      THEN [exc |-> a.exc, accounts |-> accounts, calls |-> a.calls]
      ELSE PrependCalls(a.calls,
             AppendAccounts(Append(accounts, a.self), Tail(account_ids),
                            fetch_data, Tail(outs)))

AppendAccounts(accounts, account_ids, fetch_data, outs) ==
    IF account_ids = << >>
      THEN [exc |-> NoException, accounts |-> accounts, calls |-> << >>]
      ELSE AppendBuilt(accounts, account_ids, fetch_data, outs,
             BankAccount(Head(account_ids), fetch_data, Head(outs)[1], Head(outs)[2]))

StoreAccounts(self, log, r) ==
    [exc |-> r.exc, self |-> [self EXCEPT !.accounts = r.accounts],
     calls |-> log \o r.calls]

\* the try body of _initialize_accounts once institution_id and reference
\* are stored
CheckRequisition(self, fetch_data, accounts_response, outs, log) ==
    IF Get(accounts_response, "status", None) = STATUS_EXPIRED
      THEN [exc |-> NordigenAPIError("Access to accounts has expired",
                                     428, accounts_response),
            self |-> self, calls |-> log]
    ELSE IF Get(accounts_response, "accounts", << >>) = << >>
      THEN [exc |-> NordigenAPIError("No accounts found", 410, accounts_response),
            self |-> self, calls |-> log]
    ELSE StoreAccounts(self, log,
           AppendAccounts(self.accounts, Get(accounts_response, "accounts", << >>),
                          fetch_data, outs))

\* the try body of _initialize_accounts
InitializeTryBody(self, fetch_data, req_out, outs) ==
    IF req_out.kind = "raise"
      THEN [exc |-> req_out.exc, self |-> self,
            calls |-> << Call("get_requisition_by_id", self.requisition_id, req_out) >>]
      ELSE CheckRequisition(
             [self EXCEPT
                !.institution_id = Get(req_out.data, "institution_id", None),
                !.reference = Get(req_out.data, "reference", None)],
             fetch_data, req_out.data, outs,
             << Call("get_requisition_by_id", self.requisition_id, req_out) >>)

\* what leaves _initialize_accounts when its try body ended as r
LeaveInitialize(r) ==
    Leave(r, "Error fetching requisition details",
          "Unexpected error during requisition initialization", r.calls)

\* BankAccountManager.__init__ with _initialize_accounts
BankAccountManager(requisition_id, fetch_data, req_out, outs) ==
    LeaveInitialize(InitializeTryBody(NewManager(requisition_id), fetch_data,
                                      req_out, outs))

\* the outcomes of the account calls a manager gets to make for account_ids:
\* the calls of an account are made only when every account before it was built
RECURSIVE AccountScripts(_, _)
ScriptsFrom(account_ids, fetch_data, d, b, a) ==
    IF a.exc = NoException
      THEN { << << d, b >> >> \o s : s \in AccountScripts(Tail(account_ids), fetch_data) }
      ELSE { << << d, b >> >>
             \o [i \in 1..(Len(account_ids) - 1) |-> << NotCalled, NotCalled >>] }

AccountScripts(account_ids, fetch_data) ==
    IF account_ids = << >> THEN { << >> }
    ELSE UNION { UNION {
           ScriptsFrom(account_ids, fetch_data, d, b,
                       BankAccount(Head(account_ids), fetch_data, d, b))
           : b \in BalancesOutcomesFor(Head(account_ids), fetch_data, d,
                                       ManagerBalancesOutcomes) }
           : d \in DetailsOutcomesFor(fetch_data, ManagerDetailsOutcomes) }

LinkedIds(req_out) ==
    IF req_out.kind = "ok" THEN Get(req_out.data, "accounts", << >>) ELSE << >>

\* the caller's view of a BankAccountManager(...) call that ended as r
ManagerBuilt(requisition_id, fetch_data, r) ==
    /\ op' = [name |-> "BankAccountManager",
              requisition_id |-> requisition_id, fetch_data |-> fetch_data]
    /\ calls' = r.calls
    /\ raised' = r.exc
    /\ manager' = IF r.exc = NoException THEN r.self ELSE manager
    /\ UNCHANGED <<returned, account>>

\* The caller builds one manager; a failed construction ends the session.
NewBankAccountManager ==
    /\ manager = Null
    /\ raised = NoException
    /\ \E requisition_id \in { "req1" }, fetch_data \in BOOLEAN :
         \E req_out \in RequisitionOutcomes :
           \E outs \in AccountScripts(LinkedIds(req_out), fetch_data) :
             ManagerBuilt(requisition_id, fetch_data,
                          BankAccountManager(requisition_id, fetch_data, req_out, outs))

----------------------------------------------------------------------------

Init ==
    /\ op = [name |-> "none"]
    /\ calls = << >>
    /\ raised = NoException
    /\ returned = NoReturn
    /\ account = Null
    /\ manager = Null

\* The token function, a BankAccount and a BankAccountManager share no
\* mutable state (the client handle is only read), so each is explored by a
\* specification of its own.
NextAccount == NewBankAccount \/ UpdateAccountData \/ UpdateBalanceData

SpecAccount == Init /\ [][NextAccount]_vars

NextToken == CreateClient

SpecToken == Init /\ [][NextToken]_vars

NextManager == NewBankAccountManager

SpecManager == Init /\ [][NextManager]_vars

----------------------------------------------------------------------------
(* The claims *)

IsManagerOp == op.name = "BankAccountManager"

\* the requisition fetch of a manager construction returned a record
RequisitionReturned == IsManagerOp /\ calls[1].out.kind = "ok"

RequisitionRecord == calls[1].out.data

Expired == Get(RequisitionRecord, "status", None) = STATUS_EXPIRED

LinkedAccountIds == Get(RequisitionRecord, "accounts", << >>)

\* the outcome is a request failure whose response carries the JSON body
IsRemoteFailure(out) ==
    /\ out.kind = "raise"
    /\ out.exc.type = "HTTPError"
    /\ out.exc.response # Null
    /\ out.exc.response.is_json

RemoteBody(out) == out.exc.response.body

RemoteStatus(out) == Get(RemoteBody(out), "status_code", NoneCode)

IsApiError(exc, status_code, response_body) ==
    /\ exc.type = "NordigenAPIError"
    /\ exc.status_code = status_code
    /\ exc.response_body = response_body

\* C1: an expired requisition record makes manager construction fail with a
\* NordigenAPIError of status_code 428 whose response_body is the record,
\* with no account call issued and no manager built.
C1_ExpiredFailsWith428 ==
    (RequisitionReturned /\ Expired) =>
        /\ IsApiError(raised, 428, RequisitionRecord)
        /\ Len(calls) = 1
        /\ manager = Null

\* C2: a non-expired requisition record whose accounts list is empty or
\* absent makes manager construction fail with a NordigenAPIError of
\* status_code 410 whose response_body is the record.
C2_NoAccountsFailsWith410 ==
    (RequisitionReturned /\ ~Expired /\ LinkedAccountIds = << >>) =>
        IsApiError(raised, 410, RequisitionRecord)

IsTokenOp == op.name = "create_nordigen_client"

Generated == \E i \in 1..Len(calls) : calls[i].api = "generate_token"

\* C3: when the exchange of a supplied refresh token fails with a request
\* failure of a status other than 401, create_nordigen_client fails with a
\* NordigenAPIError carrying that failure's status code and body, and makes
\* no generate_token call.
C3_ExchangeFailureCarriesStatus ==
    (/\ IsTokenOp
     /\ Truthy(op.refresh_token)
     /\ IsRemoteFailure(calls[1].out)
     /\ RemoteStatus(calls[1].out) # status_invalid) =>
        /\ IsApiError(raised, RemoteStatus(calls[1].out), RemoteBody(calls[1].out))
        /\ ~Generated

\* C4: when create_nordigen_client returns, the refresh-token slot is
\* populated exactly when a generate_token call was made, which happens
\* exactly when no refresh token was supplied or the exchange failed with
\* status 401; it then equals the `refresh` field of the generation response.
\* When the exchange succeeds the slot is empty and the exchange is the only
\* call.  The client's token is the `access` field of the last response.
C4_RefreshSlotAndToken ==
    (IsTokenOp /\ raised = NoException) =>
        LET last == calls[Len(calls)] IN
        /\ Generated <=> returned.new_refresh_token # None
        /\ Generated <=>
             \/ ~Truthy(op.refresh_token)
             \/ /\ IsRemoteFailure(calls[1].out)
                /\ RemoteStatus(calls[1].out) = status_invalid
        /\ Generated =>
             /\ last.api = "generate_token"
             /\ returned.new_refresh_token = last.out.data["refresh"]
        /\ (calls[1].api = "exchange_token" /\ calls[1].out.kind = "ok") =>
             /\ returned.new_refresh_token = None
             /\ Len(calls) = 1
        /\ last.out.kind = "ok"
        /\ returned.client.token = last.out.data["access"]

\* a 401 on the exchange was answered by a fresh token pair
C4_Witness ==
    /\ IsTokenOp
    /\ raised = NoException
    /\ Len(calls) = 2
    /\ calls[1].api = "exchange_token"
    /\ returned.new_refresh_token = "r2"
    /\ returned.client.token = "a2"

\* C5: whatever the remote calls do, a failure that reaches the caller of a
\* public operation is a NordigenAPIError.
C5_OnlyNordigenAPIError == raised.type \in { "NoException", "NordigenAPIError" }

\* the normalized record of one entry of a balances response
Normalized(entry) ==
    LET has_amount == "balanceAmount" \in DOMAIN entry IN
    [balanceType |-> IF "balanceType" \in DOMAIN entry
                       THEN entry["balanceType"] ELSE "Unknown",
     amount |-> IF has_amount /\ "amount" \in DOMAIN entry["balanceAmount"]
                  THEN float(entry["balanceAmount"]["amount"]).value ELSE 0,
     currency |-> IF has_amount /\ "currency" \in DOMAIN entry["balanceAmount"]
                    THEN entry["balanceAmount"]["currency"] ELSE "Unknown"]

ResponseEntries == Get(calls[1].out.data, "balances", << >>)

\* C6: after a successful update_balance_data, whatever the list held
\* before, balances holds exactly the normalized record of each entry of the
\* response, in response order.
C6_BalancesReplaced ==
    (op.name = "update_balance_data" /\ raised = NoException) =>
        /\ Len(account.balances) = Len(ResponseEntries)
        /\ \A i \in 1..Len(ResponseEntries) :
             account.balances[i] = Normalized(ResponseEntries[i])

\* a refresh of a list of two entries by a response of one other entry
C6_Witness ==
    /\ op.name = "update_balance_data"
    /\ raised = NoException
    /\ Len(op.self.balances) = 2
    /\ Len(account.balances) = 1
    /\ account.balances[1] # op.self.balances[1]

\* a manager construction without fetch, on a usable requisition record
C7_Case ==
    /\ RequisitionReturned
    /\ ~op.fetch_data
    /\ ~Expired
    /\ LinkedAccountIds # << >>

\* C7 as claimed: construction succeeds with one BankAccount per listed id,
\* in order, each with the name "Unknown", and only the requisition call.
C7_NamesUnknown ==
    C7_Case =>
        /\ raised = NoException
        /\ manager # Null
        /\ Len(manager.accounts) = Len(LinkedAccountIds)
        /\ \A i \in 1..Len(LinkedAccountIds) :
             /\ manager.accounts[i].account_id = LinkedAccountIds[i]
             /\ manager.accounts[i].name = "Unknown"
        /\ Len(calls) = 1

\* C7 as amended: construction succeeds with one BankAccount per listed id,
\* in order, each with name, status and currency None and no balances, and
\* only the requisition call.
C7_NamesNone ==
    C7_Case =>
        /\ raised = NoException
        /\ manager # Null
        /\ Len(manager.accounts) = Len(LinkedAccountIds)
        /\ \A i \in 1..Len(LinkedAccountIds) :
             /\ manager.accounts[i].account_id = LinkedAccountIds[i]
             /\ manager.accounts[i].name = None
             /\ manager.accounts[i].status = None
             /\ manager.accounts[i].currency = None
             /\ manager.accounts[i].balances = << >>
        /\ Len(calls) = 1

C7_Witness ==
    /\ C7_Case
    /\ LinkedAccountIds = << "acc2", "acc1" >>
    /\ manager # Null

\* the last call of a manager construction with fetch was an account call
\* that failed with a remote request failure
C8_Case ==
    /\ RequisitionReturned
    /\ op.fetch_data
    /\ Len(calls) > 1
    /\ IsRemoteFailure(calls[Len(calls)].out)

\* C8: a remote request failure of an account's details or balances call
\* makes manager construction fail with a NordigenAPIError carrying that
\* failure's status code and body, and the caller gets no manager.
C8_AccountFailureCarriesStatus ==
    C8_Case =>
        LET out == calls[Len(calls)].out IN
        /\ IsApiError(raised, RemoteStatus(out), RemoteBody(out))
        /\ manager = Null

\* C9: a manager construction with fetch calls the requisition endpoint
\* once, then for each linked id in order the details endpoint and then the
\* balances endpoint, once each, and nothing after the first call that fails;
\* when it returns, every one of these calls was made.
C9_CallOrder ==
    (IsManagerOp /\ op.fetch_data) =>
        /\ calls[1].api = "get_requisition_by_id"
        /\ \A j \in 1..(Len(calls) - 1) : calls[j].out.kind = "ok"
        /\ Len(calls) > 1 =>
             /\ Len(calls) - 1 <= 2 * Len(LinkedAccountIds)
             /\ \A j \in 1..(Len(calls) - 1) :
                  /\ calls[j + 1].api =
                       IF j % 2 = 1 THEN "get_details" ELSE "get_balances"
                  /\ calls[j + 1].arg = LinkedAccountIds[(j + 1) \div 2]
        /\ raised = NoException => Len(calls) - 1 = 2 * Len(LinkedAccountIds)

\* the details call of the second account failed after the first was built
C9_Witness ==
    /\ IsManagerOp
    /\ op.fetch_data
    /\ Len(calls) = 4
    /\ calls[4].api = "get_details"
    /\ calls[4].out.kind = "raise"
    /\ raised # NoException

\* C10: a failed update_balance_data leaves balances as it was when the
\* request failed, and otherwise a prefix of the normalized records of the
\* response; a failed update_account_data leaves name, status and currency
\* as they were.
C10_FailedUpdateFrame ==
    /\ (op.name = "update_balance_data" /\ raised # NoException) =>
         IF calls[1].out.kind = "raise"
           THEN account.balances = op.self.balances
         ELSE /\ Len(account.balances) <= Len(ResponseEntries)
              /\ \A i \in 1..Len(account.balances) :
                   account.balances[i] = Normalized(ResponseEntries[i])
    /\ (op.name = "update_account_data" /\ raised # NoException) =>
         /\ account.name = op.self.name
         /\ account.status = op.self.status
         /\ account.currency = op.self.currency

\* the second entry of a response could not be parsed, on a non-empty list
C10_Witness ==
    /\ op.name = "update_balance_data"
    /\ raised # NoException
    /\ calls[1].out.kind = "ok"
    /\ op.self.balances # << >>
    /\ Len(account.balances) = 1
    /\ Len(ResponseEntries) = 2

====
